---- MODULE Spec2Model ----
(***************************************************************************)
(* Model of .github/workflows/send_fcm_notification.js: the job reads a    *)
(* snapshot of /paymentSessions, sends one FCM message per session that    *)
(* has cardPaymentDetails and is not notified, and then marks the session  *)
(* with update({notified: true}).  Several invocations (processes) of the  *)
(* job may run one after another or overlap; each may be killed.  The      *)
(* payment system that owns the sessions acts on the store as well.        *)
(***************************************************************************)
EXTENDS Integers, FiniteSets, Sequences, TLC

\* ------------------------------------------------------------------ bounds
NumSessions == 2
NumRuns == 2
MaxFaults == 1

SessionIds == 1..NumSessions
Runs == 1..NumRuns

\* ------------------------------------------------------------ data values
HolderNames == <<"Alice", "Bob", "Carol", "Dave">>

\* values of session.cardPaymentDetails: absent (undefined), present but
\* falsy ("" / 0 / false), or an object carrying cardHolderName
NoCard == [kind |-> "absent", cardHolderName |-> "undefined"]
FalsyCard == [kind |-> "falsy", cardHolderName |-> "undefined"]
Card(name) == [kind |-> "object", cardHolderName |-> name]

\* no record under the key (snapshot.val() has no such property)
NoSession == [exists |-> FALSE, cardPaymentDetails |-> NoCard, notified |-> "absent"]
Session(card, flag) == [exists |-> TRUE, cardPaymentDetails |-> card, notified |-> flag]

\* session records the store holds before the first invocation; a session
\* to notify has notified: false under the odd keys and no notified field
\* under the even ones
InitSessions(s) ==
    { NoSession,
      Session(NoCard, "absent"),
      Session(FalsyCard, "false"),
      Session(Card(HolderNames[s]), IF s % 2 = 1 THEN "false" ELSE "absent"),
      Session(Card(HolderNames[s]), "true") }

\* errors the two external calls reject with: both go over the network and
\* reject with the same error when it is down
SendErrors == {"network-error"}
UpdateErrors == {"network-error"}

NoLine == [stream |-> "none", text |-> "", arg |-> ""]
LogLine(name) == [stream |-> "log", text |-> "Notification sent for card: ", arg |-> name]
ErrorLine(err) == [stream |-> "error", text |-> "Error sending notification:", arg |-> err]

VARIABLES
    store,        \* /artifacts/default-app-id/public/data/paymentSessions
    pc,           \* per invocation: the await it is suspended at
    data,         \* per invocation: snapshot.val()
    sessionId,    \* per invocation: the loop variable (0 outside the loop)
    sendCalls,    \* history: messaging.send calls issued, per run and key
    sendRes,      \* history: result of the send, per run and key
    updateCalls,  \* history: update calls issued, per run and key
    markRes,      \* history: result of the update, per run and key
    console,      \* per invocation: the last line written to the console
    priorMarked,  \* history: keys a mark had succeeded for when data was read
    fetchRes,     \* history: result of the snapshot read, per run
    delivered,    \* history: sends that reported success, per key
    message,      \* per invocation: the payload of the last send issued
    faults        \* history: rejections, kills and removals so far

vars == <<store, pc, data, sessionId, sendCalls, sendRes, updateCalls, markRes,
          console, priorMarked, fetchRes, delivered, message, faults>>

\* ---------------------------------------------------------- pure helpers
\* JS truthiness of session.cardPaymentDetails
Truthy(card) == card.kind = "object"

\* variant: the filter tests the flag only
isCandidateFlagOnly(session) == session.notified # "true"

\* variant: the filter tests the card only
isCandidateCardOnly(session) == Truthy(session.cardPaymentDetails)

\* variant: the filter compares the flag with false
isCandidateNotFalse(session) ==
    Truthy(session.cardPaymentDetails) /\ session.notified # "false"

\* variant: the filter requires the flag to be false
isCandidateFalseOnly(session) ==
    Truthy(session.cardPaymentDetails) /\ session.notified = "false"

\* line 24: session.cardPaymentDetails && session.notified !== true
isCandidate(session) ==
    Truthy(session.cardPaymentDetails) /\ session.notified # "true"

\* line 22: the keys for..in enumerates
Keys(d) == {s \in SessionIds : d[s].exists}

\* variant: the update is written to another path, the record stays as it is
updateElsewhere(session) == session

\* variant: the update writes notified: false
updateFalse(session) ==
    [exists |-> TRUE, cardPaymentDetails |-> session.cardPaymentDetails, notified |-> "false"]

\* line 36: ref.child(sessionId).update({notified: true}) merges the field
\* into the record under the key, writing the path if nothing is there
update(session) ==
    [exists |-> TRUE, cardPaymentDetails |-> session.cardPaymentDetails, notified |-> "true"]

\* no send issued yet
NoMessage == [title |-> "", body |-> <<"", "">>, topic |-> ""]

\* variant: the body is built from the first session of the snapshot
buildMessageFirst(d, s) ==
    LET first == CHOOSE k \in Keys(d) : \A j \in Keys(d) : k <= j
    IN [title |-> "New Card Added",
        body |-> <<"Cardholder: ", d[first].cardPaymentDetails.cardHolderName>>,
        topic |-> "admin"]

\* lines 23-32: the payload built for key s of the snapshot; the body is the
\* template literal `Cardholder: ${cardHolderName}`
buildMessage(d, s) ==
    [title |-> "New Card Added",
     body |-> <<"Cardholder: ", d[s].cardPaymentDetails.cardHolderName>>,
     topic |-> "admin"]

\* variant: the enumeration does not move past the key it has just handled
nextCandidateAgain(d, after) ==
    LET rest == {s \in Keys(d) : s >= after /\ isCandidate(d[s])}
    IN IF rest = {} THEN 0 ELSE CHOOSE s \in rest : \A t \in rest : s <= t

\* lines 22-24: the next key after `after` that passes the filter (0: none)
nextCandidate(d, after) ==
    LET rest == {s \in Keys(d) : s > after /\ isCandidate(d[s])}
    IN IF rest = {} THEN 0 ELSE CHOOSE s \in rest : \A t \in rest : s <= t

\* variant: before each send the filter is applied to the record the store
\* holds now, not to the one of the snapshot
continueFresh(r, after) ==
    LET rest == {s \in Keys(data'[r]) : s > after /\ isCandidate(store[s])}
        n == IF rest = {} THEN 0 ELSE CHOOSE s \in rest : \A k \in rest : s <= k
    IN /\ sessionId' = [sessionId EXCEPT ![r] = n]
       /\ pc' = [pc EXCEPT ![r] = IF n = 0 THEN "done" ELSE "send"]
       /\ sendCalls' = IF n = 0 THEN sendCalls
                       ELSE [sendCalls EXCEPT ![r][n] = @ + 1]
       /\ message' = IF n = 0 THEN message
                     ELSE [message EXCEPT ![r] = buildMessage(data'[r], n)]

\* the loop runs on from key `after` to the next send, or to the end
continue(r, after) ==
    LET n == nextCandidate(data'[r], after)
    IN /\ sessionId' = [sessionId EXCEPT ![r] = n]
       /\ pc' = [pc EXCEPT ![r] = IF n = 0 THEN "done" ELSE "send"]
       /\ sendCalls' = IF n = 0 THEN sendCalls
                       ELSE [sendCalls EXCEPT ![r][n] = @ + 1]
       /\ message' = IF n = 0 THEN message
                     ELSE [message EXCEPT ![r] = buildMessage(data'[r], n)]

\* ------------------------------------------------------------------ Init
Init ==
    /\ store \in {st \in [SessionIds -> UNION {InitSessions(s) : s \in SessionIds}] :
                    \A s \in SessionIds : st[s] \in InitSessions(s)}
    /\ pc = [r \in Runs |-> "start"]
    /\ data = [r \in Runs |-> [s \in SessionIds |-> NoSession]]
    /\ sessionId = [r \in Runs |-> 0]
    /\ sendCalls = [r \in Runs |-> [s \in SessionIds |-> 0]]
    /\ sendRes = [r \in Runs |-> [s \in SessionIds |-> "none"]]
    /\ updateCalls = [r \in Runs |-> [s \in SessionIds |-> 0]]
    /\ markRes = [r \in Runs |-> [s \in SessionIds |-> "none"]]
    /\ console = [r \in Runs |-> NoLine]
    /\ priorMarked = [r \in Runs |-> {}]
    /\ fetchRes = [r \in Runs |-> "none"]
    /\ delivered = [s \in SessionIds |-> 0]
    /\ message = [r \in Runs |-> NoMessage]
    /\ faults = 0

\* --------------------------------------------------------------- actions
\* a call rejects, a process is killed or a session is removed: at most
\* MaxFaults times in a behaviour
Fault == faults < MaxFaults /\ faults' = faults + 1

\* invocations are numbered in the order they read the store
MayStart(r) == pc[r] = "start" /\ (IF r = 1 THEN TRUE ELSE pc[r - 1] # "start")

\* line 19 resolves: data is the store as it is now; the loop starts
FetchOk(r) ==
    /\ MayStart(r)
    /\ fetchRes' = [fetchRes EXCEPT ![r] = "ok"]
    /\ data' = [data EXCEPT ![r] = store]
    /\ priorMarked' = [priorMarked EXCEPT ![r] =
            {s \in SessionIds : \E q \in Runs : markRes[q][s] = "ok"}]
    /\ continue(r, 0)
    /\ UNCHANGED <<store, sendRes, updateCalls, markRes, console, delivered, faults>>

\* variant: the rejection is swallowed and the run ends normally
FetchFailSwallowed(r) ==
    /\ MayStart(r)
    /\ Fault
    /\ fetchRes' = [fetchRes EXCEPT ![r] = "fail"]
    /\ pc' = [pc EXCEPT ![r] = "done"]
    /\ UNCHANGED <<message, store, data, sessionId, sendCalls, sendRes, updateCalls,
                   markRes, console, priorMarked, delivered>>

\* line 19 rejects: sendNotifications() rejects, nothing handles it (line 45)
FetchFail(r) ==
    /\ MayStart(r)
    /\ Fault
    /\ fetchRes' = [fetchRes EXCEPT ![r] = "fail"]
    /\ pc' = [pc EXCEPT ![r] = "failed"]
    /\ UNCHANGED <<message, store, data, sessionId, sendCalls, sendRes, updateCalls,
                   markRes, console, priorMarked, delivered>>

\* variant: the update is issued but not awaited, the loop goes on at once
SendOkNoAwait(r) ==
    /\ pc[r] = "send"
    /\ sendRes' = [sendRes EXCEPT ![r][sessionId[r]] = "ok"]
    /\ updateCalls' = [updateCalls EXCEPT ![r][sessionId[r]] = @ + 1]
    /\ delivered' = [delivered EXCEPT ![sessionId[r]] = @ + 1]
    /\ data' = data
    /\ continue(r, sessionId[r])
    /\ UNCHANGED <<store, markRes, console, priorMarked, fetchRes, faults>>

\* line 35 resolves: line 36 issues the update
SendOk(r) ==
    /\ pc[r] = "send"
    /\ sendRes' = [sendRes EXCEPT ![r][sessionId[r]] = "ok"]
    /\ updateCalls' = [updateCalls EXCEPT ![r][sessionId[r]] = @ + 1]
    /\ pc' = [pc EXCEPT ![r] = "mark"]
    /\ delivered' = [delivered EXCEPT ![sessionId[r]] = @ + 1]
    /\ UNCHANGED <<message, store, data, sessionId, sendCalls, markRes, console, priorMarked,
                   fetchRes, faults>>

\* variant: nothing catches the rejection of the send, so the run rejects
SendFailThrows(r, err) ==
    /\ pc[r] = "send"
    /\ Fault
    /\ sendRes' = [sendRes EXCEPT ![r][sessionId[r]] = "fail"]
    /\ pc' = [pc EXCEPT ![r] = "failed"]
    /\ UNCHANGED <<message, store, data, sessionId, sendCalls, updateCalls, markRes,
                   console, priorMarked, fetchRes, delivered>>

\* variant: the update sits after the catch, so it follows a failed send too
SendFailThenMark(r, err) ==
    /\ pc[r] = "send"
    /\ Fault
    /\ sendRes' = [sendRes EXCEPT ![r][sessionId[r]] = "fail"]
    /\ console' = [console EXCEPT ![r] = ErrorLine(err)]
    /\ updateCalls' = [updateCalls EXCEPT ![r][sessionId[r]] = @ + 1]
    /\ pc' = [pc EXCEPT ![r] = "mark"]
    /\ UNCHANGED <<message, store, data, sessionId, sendCalls, markRes, priorMarked,
                   fetchRes, delivered>>

\* variant: the try encloses the loop, so a failed send ends the loop
SendFailBreaks(r, err) ==
    /\ pc[r] = "send"
    /\ Fault
    /\ sendRes' = [sendRes EXCEPT ![r][sessionId[r]] = "fail"]
    /\ console' = [console EXCEPT ![r] = ErrorLine(err)]
    /\ pc' = [pc EXCEPT ![r] = "done"]
    /\ sessionId' = [sessionId EXCEPT ![r] = 0]
    /\ UNCHANGED <<message, store, data, sendCalls, updateCalls, markRes, priorMarked,
                   fetchRes, delivered>>

\* line 35 rejects: line 39 logs, the loop goes on
SendFail(r, err) ==
    /\ pc[r] = "send"
    /\ Fault
    /\ sendRes' = [sendRes EXCEPT ![r][sessionId[r]] = "fail"]
    /\ console' = [console EXCEPT ![r] = ErrorLine(err)]
    /\ data' = data
    /\ continue(r, sessionId[r])
    /\ UNCHANGED <<store, updateCalls, markRes, priorMarked, fetchRes, delivered>>

\* line 36 resolves: the store holds the merged record; line 37 logs
MarkOk(r) ==
    /\ pc[r] = "mark"
    /\ store' = [store EXCEPT ![sessionId[r]] = update(@)]
    /\ markRes' = [markRes EXCEPT ![r][sessionId[r]] = "ok"]
    /\ console' = [console EXCEPT ![r] =
            LogLine(data[r][sessionId[r]].cardPaymentDetails.cardHolderName)]
    /\ data' = data
    /\ continue(r, sessionId[r])
    /\ UNCHANGED <<sendRes, updateCalls, priorMarked, fetchRes, delivered, faults>>

\* variant: the rejected update has written the store all the same
MarkFailWrites(r, err) ==
    /\ pc[r] = "mark"
    /\ Fault
    /\ store' = [store EXCEPT ![sessionId[r]] = update(@)]
    /\ markRes' = [markRes EXCEPT ![r][sessionId[r]] = "fail"]
    /\ console' = [console EXCEPT ![r] = ErrorLine(err)]
    /\ data' = data
    /\ continue(r, sessionId[r])
    /\ UNCHANGED <<sendRes, updateCalls, priorMarked, fetchRes, delivered>>

\* line 36 rejects: the store is not written; line 39 logs
MarkFail(r, err) ==
    /\ pc[r] = "mark"
    /\ Fault
    /\ markRes' = [markRes EXCEPT ![r][sessionId[r]] = "fail"]
    /\ console' = [console EXCEPT ![r] = ErrorLine(err)]
    /\ data' = data
    /\ continue(r, sessionId[r])
    /\ UNCHANGED <<store, sendRes, updateCalls, priorMarked, fetchRes, delivered>>

\* the process is killed while it waits for the send or for the update
Crash(r) ==
    /\ pc[r] \in {"send", "mark"}
    /\ Fault
    /\ pc' = [pc EXCEPT ![r] = "crashed"]
    /\ UNCHANGED <<message, store, data, sessionId, sendCalls, sendRes, updateCalls,
                   markRes, console, priorMarked, fetchRes, delivered>>

\* the payment system removes a session
Remove(s) ==
    /\ store[s].exists
    /\ Fault
    /\ store' = [store EXCEPT ![s] = NoSession]
    /\ UNCHANGED <<message, pc, data, sessionId, sendCalls, sendRes, updateCalls, markRes,
                   console, priorMarked, fetchRes, delivered>>

\* one step of invocation r of sendNotifications
sendNotifications(r) ==
    \/ FetchOk(r)
    \/ FetchFail(r)
    \/ SendOk(r)
    \/ \E err \in SendErrors : SendFail(r, err)
    \/ MarkOk(r)
    \/ \E err \in UpdateErrors : MarkFail(r, err)

JobStep == \E r \in Runs : sendNotifications(r)

Next ==
    \/ JobStep
    \/ \E r \in Runs : Crash(r)
    \/ \E s \in SessionIds : Remove(s)

Spec == Init /\ [][Next]_vars

\* invocations one after another, and nothing but the job writes the store:
\* a step of r is taken only while no other invocation is between its
\* snapshot read and its end
Quiet(r) == \A q \in Runs \ {r} : pc[q] \in {"start", "done", "failed", "crashed"}

SeqStep(r) == Quiet(r) /\ sendNotifications(r)

SeqCrash(r) == Quiet(r) /\ Crash(r)

SeqNext ==
    \/ \E r \in Runs : SeqStep(r)
    \/ \E r \in Runs : SeqCrash(r)

SpecSeq == Init /\ [][SeqNext]_vars

\* the job alone, invocations overlapping at will, no process killed, and
\* every call that is awaited returns: the pending step of each invocation is
\* eventually taken
SpecLive == Init /\ [][JobStep]_vars /\ \A r \in Runs : WF_vars(sendNotifications(r))

TypeOK ==
    /\ \A s \in SessionIds : store[s].notified \in {"absent", "false", "true"}
    /\ \A r \in Runs : pc[r] \in {"start", "send", "mark", "done", "failed", "crashed"}

\* ------------------------------------------------- vocabulary of the claims
\* the record is there and its flag is not true
Unnotified(rec) == rec.exists /\ rec.notified # "true"

\* the keys run r dispatches: in its snapshot, with a card object, not notified
Selected(r) ==
    {s \in SessionIds : Unnotified(data[r][s]) /\ data[r][s].cardPaymentDetails.kind = "object"}

\* run r's send for s succeeded and its mark failed, or r was killed before it
LostMark(r, s) ==
    /\ sendRes[r][s] = "ok"
    /\ \/ markRes[r][s] = "fail"
       \/ pc[r] = "crashed" /\ markRes[r][s] = "none"

\* a step of the job, as opposed to one of the payment system
ByJob == pc' # pc

\* ------------------------------------------------------------------- C1
\* C1 as stated: for every session, the sends that reported success, over
\* all invocations (sequential, overlapping, killed), number at most one.
C1_AtMostOnce == \A s \in SessionIds : delivered[s] <= 1

\* C1 amended: the sends that reported success for a session number at most
\* the invocations whose snapshot showed the session as not notified.
C1_OnePerUnnotifiedRead ==
    \A s \in SessionIds :
        delivered[s] <= Cardinality({r \in Runs : fetchRes[r] = "ok" /\ Unnotified(data[r][s])})

\* two invocations have both sent for the same session with success
C1_Witness == \E s \in SessionIds : delivered[s] = 2

\* ------------------------------------------------------------------- C2
\* C2: a run issues the update for a session only after its own send for
\* that session reported success; after a failed send it issues no update
\* for the session, and no step writes a record unless a run whose send for
\* it succeeded is at its update.
C2_NoPrematureMark ==
    /\ [](\A r \in Runs : \A s \in SessionIds :
            /\ updateCalls[r][s] > 0 => sendRes[r][s] = "ok"
            /\ sendRes[r][s] = "fail" => updateCalls[r][s] = 0 /\ markRes[r][s] = "none")
    /\ [][\A s \in SessionIds :
            (store'[s] # store[s] /\ store'[s].exists) =>
                \E r \in Runs : /\ pc[r] = "mark"
                                /\ sessionId[r] = s
                                /\ sendRes[r][s] = "ok"
                                /\ markRes'[r][s] = "ok"]_vars

\* a run's send failed for a session, the run is over and the record in the
\* store is the one the run read
C2_Witness ==
    \E r \in Runs : \E s \in SessionIds :
        /\ sendRes[r][s] = "fail"
        /\ pc[r] = "done"
        /\ store[s] = data[r][s]
        /\ \E t \in SessionIds : markRes[r][t] = "ok"

\* ------------------------------------------------------------------- C3
\* C3: a finished run has attempted a send for a session of its snapshot if
\* and only if cardPaymentDetails is present, whatever its value, and
\* notified is not true.
C3_FilterByPresence ==
    \A r \in Runs : pc[r] = "done" =>
        \A s \in SessionIds :
            sendCalls[r][s] > 0 <=>
                /\ Unnotified(data[r][s])
                /\ data[r][s].cardPaymentDetails.kind # "absent"

\* ------------------------------------------------------------------- C4
\* C4: when a run is over, every session it selected has had its one send,
\* and its update if the send succeeded, whatever failed for the others.
C4_FailureIsolation ==
    \A r \in Runs : pc[r] = "done" =>
        \A s \in Selected(r) :
            /\ sendCalls[r][s] = 1
            /\ sendRes[r][s] \in {"ok", "fail"}
            /\ sendRes[r][s] = "ok" => updateCalls[r][s] = 1 /\ markRes[r][s] \in {"ok", "fail"}
            /\ sendRes[r][s] = "fail" => updateCalls[r][s] = 0 /\ markRes[r][s] = "none"

\* a run whose send failed for one session and whose mark failed for another
\* has delivered for a session that comes after one of them
C4_Witness ==
    \E r \in Runs : \E s, t \in SessionIds :
        /\ pc[r] = "done"
        /\ s < t
        /\ sendRes[r][s] = "fail" \/ markRes[r][s] = "fail"
        /\ markRes[r][t] = "ok"

\* ------------------------------------------------------------------- C5
\* C5: a run that reads its snapshot after a mark for a session has
\* succeeded attempts no send for that session.
C5_MarkedNeverReselected ==
    \A r \in Runs : \A s \in priorMarked[r] : sendCalls[r][s] = 0

\* a finished run read, with its card, a session marked before the read
C5_Witness ==
    \E r \in Runs : \E s \in priorMarked[r] :
        /\ pc[r] = "done"
        /\ data[r][s].cardPaymentDetails.kind = "object"
        /\ data[r][s].notified = "true"

\* ------------------------------------------------------------------- C6
\* C6: with invocations one after another, when a run's send for a session
\* succeeded and its mark failed or the run was killed before the mark, the
\* next run reads the session as the earlier run read it, not notified, and
\* has sent for it again by the time it is over.
C6_LostMarkResent ==
    \A q \in 1..(NumRuns - 1) : \A s \in SessionIds :
        (LostMark(q, s) /\ fetchRes[q + 1] = "ok") =>
            /\ data[q + 1][s] = data[q][s]
            /\ Unnotified(data[q + 1][s])
            /\ pc[q + 1] = "done" => sendCalls[q + 1][s] = 1 /\ sendRes[q + 1][s] # "none"

\* a run was killed between its send and its mark, and the next run has sent
\* for the same session again
C6_Witness ==
    \E q \in 1..(NumRuns - 1) : \E s \in SessionIds :
        /\ LostMark(q, s)
        /\ pc[q] = "crashed"
        /\ pc[q + 1] = "done"
        /\ sendRes[q + 1][s] = "ok"

\* ------------------------------------------------------------------- C7
\* C7: every step of the job that changes a stored record changes its
\* notified flag from not true to true; so between steps of the payment
\* system the flag of a session changes at most once and never goes back.
C7_NotifiedMonotonic ==
    [][ByJob =>
        \A s \in SessionIds :
            store'[s] # store[s] =>
                store[s].notified # "true" /\ store'[s].notified = "true"]_vars

\* a mark has turned the flag of a session the run read as not notified
C7_Witness ==
    \E r \in Runs : \E s \in SessionIds :
        /\ markRes[r][s] = "ok"
        /\ data[r][s].notified # "true"
        /\ store[s].notified = "true"

\* ------------------------------------------------------------------- C8
\* C8: every store write of the job sets notified to true on a record that
\* exists, leaves the record's other fields and all other records as they
\* are, and creates no record, also when the payment system removed the
\* session after the run read its snapshot.
C8_WriteFrame ==
    [][ByJob =>
        \A s \in SessionIds :
            store'[s] # store[s] =>
                store[s].exists /\ store'[s] = [store[s] EXCEPT !.notified = "true"]]_vars

\* ------------------------------------------------------------------- C9
\* C9: a run whose snapshot read failed has sent nothing, written nothing,
\* read no session and logged nothing, and is in the failed state; no run is
\* in the failed state for any other reason.
C9_FetchErrorFatal ==
    \A r \in Runs :
        /\ fetchRes[r] = "fail" =>
            /\ pc[r] = "failed"
            /\ Keys(data[r]) = {}
            /\ console[r] = NoLine
            /\ \A s \in SessionIds :
                /\ sendCalls[r][s] = 0 /\ sendRes[r][s] = "none"
                /\ updateCalls[r][s] = 0 /\ markRes[r][s] = "none"
        /\ pc[r] = "failed" => fetchRes[r] = "fail"

\* a run failed at its read while the store held a session to notify
C9_Witness ==
    \E r \in Runs : \E s \in SessionIds :
        /\ pc[r] = "failed"
        /\ Unnotified(store[s])
        /\ store[s].cardPaymentDetails.kind = "object"

\* ------------------------------------------------------------------ C10
\* the last key a finished run sent for: the line in console[r] is its line
LastSent(r) ==
    LET sent == {s \in SessionIds : sendCalls[r][s] > 0}
    IN CHOOSE s \in sent : \A t \in sent : t <= s

\* C10: every session a finished run selected is in exactly one of
\* Delivered, SendFailed and MarkFailed, and the line logged for a mark that
\* failed after a successful send is none of the lines logged for a failed
\* send.
C10_DistinctOutcomes ==
    /\ \A r \in Runs : pc[r] = "done" =>
        \A s \in Selected(r) :
            \/ sendRes[r][s] = "ok" /\ markRes[r][s] = "ok"
            \/ sendRes[r][s] = "fail" /\ markRes[r][s] = "none"
            \/ sendRes[r][s] = "ok" /\ markRes[r][s] = "fail"
    /\ \A r \in Runs :
        (pc[r] = "done" /\ Selected(r) # {} /\ markRes[r][LastSent(r)] = "fail")
            => console[r] \notin {ErrorLine(err) : err \in SendErrors}

\* ------------------------------------------------------------------ C11
\* C11: when no process is killed and every awaited call returns, a run
\* whose snapshot read succeeded eventually ends in the state done, not
\* failed, with a result for the send of every session it selected, and for
\* the update of every one whose send succeeded, whatever failed.
C11_RunCompletes ==
    \A r \in Runs :
        (fetchRes[r] = "ok") ~>
            /\ pc[r] = "done"
            /\ \A s \in Selected(r) :
                /\ sendRes[r][s] \in {"ok", "fail"}
                /\ sendRes[r][s] = "ok" => markRes[r][s] \in {"ok", "fail"}

\* a run is over in the state done although one of its calls was rejected
C11_Witness ==
    \E r \in Runs : \E s \in Selected(r) :
        /\ pc[r] = "done"
        /\ fetchRes[r] = "ok"
        /\ sendRes[r][s] = "fail" \/ markRes[r][s] = "fail"

\* ------------------------------------------------------------------ C12
\* the calls of run r that were issued and have not returned
Sending(r) == {s \in SessionIds : sendCalls[r][s] > 0 /\ sendRes[r][s] = "none"}
Updating(r) == {s \in SessionIds : updateCalls[r][s] > 0 /\ markRes[r][s] = "none"}

\* C12: a run has at most one send or update in flight; it issues the update
\* for a session only when its send for that session has returned; and it
\* issues the send for a later session only when the send, and the update if
\* one was issued, of every earlier session have returned.
C12_StrictSequence ==
    \A r \in Runs :
        /\ Cardinality(Sending(r)) + Cardinality(Updating(r)) <= 1
        /\ \A s \in SessionIds : updateCalls[r][s] > 0 => sendRes[r][s] # "none"
        /\ \A s, t \in SessionIds :
            (s < t /\ sendCalls[r][s] > 0 /\ sendCalls[r][t] > 0) =>
                s \notin Sending(r) /\ s \notin Updating(r)

\* a run waits for the update of a session after it has marked an earlier one
C12_Witness ==
    \E r \in Runs : \E s, t \in SessionIds :
        /\ s < t
        /\ markRes[r][s] = "ok"
        /\ pc[r] = "mark" /\ sessionId[r] = t
        /\ Updating(r) = {t}

\* ------------------------------------------------------------------ C13
\* the keys run r has issued a send for
Attempted(r) == {s \in SessionIds : sendCalls[r][s] > 0}

\* C13: what a run sends for is fixed by its own snapshot: at every moment
\* the sessions it has issued a send for are the sessions its snapshot shows
\* with a card and not notified, up to the key it has reached, and all of
\* them once it is over, whatever the store holds by then; so two runs whose
\* snapshots both show a session that way have both sent for it when over.
C13_SnapshotDecides ==
    /\ \A r \in Runs :
        Attempted(r) =
            CASE pc[r] = "done" -> Selected(r)
              [] pc[r] \in {"send", "mark", "crashed"} ->
                    {s \in Selected(r) : s <= sessionId[r]}
              [] OTHER -> {}
    /\ \A r, q \in Runs : \A s \in Selected(r) \cap Selected(q) :
        (pc[r] = "done" /\ pc[q] = "done") => sendCalls[r][s] = 1 /\ sendCalls[q][s] = 1

\* two runs read the same session as not notified and both have sent for it
\* and marked it
C13_Witness ==
    \E r, q \in Runs : \E s \in Selected(r) \cap Selected(q) :
        /\ r # q
        /\ pc[r] = "done" /\ pc[q] = "done"
        /\ markRes[r][s] = "ok" /\ markRes[q][s] = "ok"

\* ------------------------------------------------------------------ C14
\* C14: with no process killed, no session removed and every awaited call
\* returning, a run that reads the store after another run's send for a
\* session failed, and before any mark for it succeeded, selects the session
\* and has sent for it when over; and once the rejections stop while runs
\* are still started, a session with a card and not notified is eventually
\* stored with notified = true.
C14_RetryUntilMarked ==
    /\ [](\A q, r \in Runs : \A s \in SessionIds :
            (q < r /\ sendRes[q][s] = "fail" /\ fetchRes[r] = "ok" /\ s \notin priorMarked[r]) =>
                /\ s \in Selected(r)
                /\ pc[r] = "done" => sendCalls[r][s] = 1)
    /\ \A s \in SessionIds :
        (Unnotified(store[s]) /\ store[s].cardPaymentDetails.kind = "object")
            ~> (store[s].notified = "true")

\* a later run has marked a session an earlier run's send failed for
C14_Witness ==
    \E q, r \in Runs : \E s \in SessionIds :
        /\ q < r
        /\ sendRes[q][s] = "fail"
        /\ markRes[r][s] = "ok"
        /\ store[s].notified = "true"

\* ------------------------------------------------------------------ C15
\* the runs whose send for s succeeded and whose mark was lost
LostCount(s) == Cardinality({r \in Runs : LostMark(r, s)})

\* C15: with invocations one after another and the job the only writer, the
\* sends that reported success for a session number at most one more than
\* the successful sends for it that a failed mark or a kill before the mark
\* followed.
C15_DuplicatesFromLostMarks ==
    \A s \in SessionIds : delivered[s] <= 1 + LostCount(s)

\* a session was sent for twice with success, after one lost mark
C15_Witness ==
    \E s \in SessionIds : delivered[s] = 2 /\ LostCount(s) = 1

\* ------------------------------------------------------------------ C16
\* C16: within one invocation at most one send and at most one update are
\* issued for a session id, and an update is issued only for a key of the
\* snapshot the invocation read.
C16_OneAttemptPerSession ==
    \A r \in Runs : \A s \in SessionIds :
        /\ sendCalls[r][s] <= 1
        /\ updateCalls[r][s] <= 1
        /\ updateCalls[r][s] > 0 => s \in Keys(data[r])

\* an invocation went through its whole snapshot and issued one send and one
\* update for each of two sessions
C16_Witness ==
    \E r \in Runs : \E s, t \in SessionIds :
        /\ s # t
        /\ pc[r] = "done"
        /\ sendCalls[r][s] = 1 /\ updateCalls[r][s] = 1
        /\ sendCalls[r][t] = 1 /\ updateCalls[r][t] = 1

\* ------------------------------------------------------------------ C17
\* the snapshot of r holds no session, or only sessions that are notified or
\* have no cardPaymentDetails
NoCandidates(r) ==
    /\ fetchRes[r] = "ok"
    /\ \A s \in Keys(data[r]) :
        \/ data[r][s].notified = "true"
        \/ data[r][s].cardPaymentDetails.kind = "absent"

\* C17: an invocation whose snapshot is empty, or holds only sessions that
\* are notified or lack cardPaymentDetails, issues no send and no update,
\* logs nothing and ends normally.
C17_NoCandidatesNoEffects ==
    \A r \in Runs :
        NoCandidates(r) =>
            /\ pc[r] = "done"
            /\ console[r] = NoLine
            /\ \A s \in SessionIds :
                /\ sendCalls[r][s] = 0
                /\ updateCalls[r][s] = 0
                /\ sendRes[r][s] = "none"
                /\ markRes[r][s] = "none"

\* an invocation ended on a snapshot with a notified session and a session
\* without cardPaymentDetails
C17_Witness ==
    \E r \in Runs : \E s, t \in Keys(data[r]) :
        /\ NoCandidates(r)
        /\ pc[r] = "done"
        /\ data[r][s].notified = "true"
        /\ data[r][s].cardPaymentDetails.kind = "object"
        /\ data[r][t].cardPaymentDetails.kind = "absent"
        /\ data[r][t].notified # "true"

\* ------------------------------------------------------------------ C18
\* the payload the claim asks of a send for key s of the snapshot of r
PayloadFor(r, s) ==
    [title |-> "New Card Added",
     body |-> <<"Cardholder: ", data[r][s].cardPaymentDetails.cardHolderName>>,
     topic |-> "admin"]

\* C18: every send issued for a candidate carries the title "New Card
\* Added", the topic "admin" and a body made of the cardHolderName the
\* snapshot holds for that candidate; the update is issued only for the
\* session whose send succeeded, and the record it writes is that session's.
C18_PayloadMatchesCandidate ==
    /\ [](\A r \in Runs :
            /\ pc[r] \in {"send", "mark"} =>
                /\ sessionId[r] \in Keys(data[r])
                /\ isCandidate(data[r][sessionId[r]])
                /\ message[r] = PayloadFor(r, sessionId[r])
            /\ pc[r] = "mark" =>
                /\ sendRes[r][sessionId[r]] = "ok"
                /\ updateCalls[r][sessionId[r]] = 1
            /\ \A s \in SessionIds : updateCalls[r][s] > 0 => sendRes[r][s] = "ok")
    /\ [][\A s \in SessionIds :
            (store'[s] # store[s] /\ store'[s].exists) =>
                \E r \in Runs :
                    /\ pc[r] = "mark"
                    /\ sessionId[r] = s
                    /\ sendRes[r][s] = "ok"
                    /\ message[r] = PayloadFor(r, s)
                    /\ markRes'[r][s] = "ok"
                    /\ store'[s].notified = "true"]_vars

\* an invocation has sent for its first candidate and marked it, and now
\* waits for the send for a second candidate with another cardholder
C18_Witness ==
    \E r \in Runs : \E s \in SessionIds :
        /\ pc[r] = "send"
        /\ s < sessionId[r]
        /\ markRes[r][s] = "ok"
        /\ store[s].notified = "true"
        /\ message[r].body[2] = HolderNames[sessionId[r]]
        /\ message[r].body[2] # data[r][s].cardPaymentDetails.cardHolderName
====
